---- MODULE Spec2Model ----
(***************************************************************************)
(* Model of the content-chunking and quota-resilient dispatch pipeline of  *)
(* md_converter: contentChunker.ts (estimator, text splitter, packer),     *)
(* fileProcessor.ts (verifier, dispatch loop of processPdf / processHtml)  *)
(* and geminiService.ts (quota classification, retry loop).                *)
(*                                                                         *)
(* Strings of the program are kept at their real lengths: a text is a      *)
(* run-length encoded character sequence, <<[c |-> "a", n |-> 12000], ...>>*)
(* over the characters "a" (any non-whitespace character), "s" (a space),  *)
(* "n" (line feed) and "r" (carriage return).  The encoding is canonical:  *)
(* no empty run, neighbouring runs differ in their character.  All the     *)
(* string operations of the source (length, slice, indexOf, lastIndexOf,   *)
(* replace, trim) are computed on that encoding, so the program constants  *)
(* keep the values the source gives them.                                  *)
(***************************************************************************)
EXTENDS Integers, Sequences, FiniteSets, TLC

Max(a, b) == IF a >= b THEN a ELSE b
Min(a, b) == IF a <= b THEN a ELSE b
\* Math.floor in the place of Math.ceil
FloorDiv(a, b) == a \div b

CeilDiv(a, b) == (a + b - 1) \div b

\* ------------------------------------------------------------------------
\* Program constants (contentChunker.ts, geminiService.ts)
\* ------------------------------------------------------------------------
DEFAULT_MODEL_TOKEN_LIMIT == 120000
\* SAFETY_MARGIN = 0.9, kept as the fraction 9/10
SAFETY_MARGIN_NUM == 9
SAFETY_MARGIN_DEN == 10
PROMPT_BUFFER_TOKENS == 2000
MIN_CHUNK_TOKEN_LIMIT == 8000
CHAR_PER_TOKEN_ESTIMATE == 4
TEXT_PART_CHAR_LIMIT == 12000
\* BASE64_TO_BYTES_RATIO = 3 / 4
BASE64_TO_BYTES_NUM == 3
BASE64_TO_BYTES_DEN == 4
DEFAULT_BINARY_BYTE_LIMIT == 3 * 1024 * 1024
MIN_BINARY_BYTE_LIMIT == 512 * 1024
MAX_RATE_LIMIT_RETRIES == 3
DEFAULT_RATE_LIMIT_DELAY_MS == 20000

\* ------------------------------------------------------------------------
\* Strings, run-length encoded
\* ------------------------------------------------------------------------
Run(c, n) == [c |-> c, n |-> n]

RECURSIVE TextLength(_)
TextLength(t) == IF Len(t) = 0 THEN 0 ELSE t[1].n + TextLength(Tail(t))

\* the canonical encoding of a sequence of runs
RECURSIVE Canon(_)
Canon(t) ==
    IF Len(t) = 0 THEN <<>>
    ELSE IF t[1].n = 0 THEN Canon(Tail(t))
    ELSE IF Len(t) = 1 THEN t
    ELSE IF t[2].n = 0 THEN Canon(<<t[1]>> \o Tail(Tail(t)))
    ELSE IF t[1].c = t[2].c
         THEN Canon(<<Run(t[1].c, t[1].n + t[2].n)>> \o Tail(Tail(t)))
    ELSE <<t[1]>> \o Canon(Tail(t))

IsCanon(t) ==
    /\ \A k \in 1..Len(t) : t[k].n >= 1
    /\ \A k \in 1..(Len(t) - 1) : t[k].c # t[k + 1].c

\* offset of the first character of run k
RECURSIVE RunOffset(_, _)
RunOffset(t, k) == IF k <= 1 THEN 0 ELSE t[k - 1].n + RunOffset(t, k - 1)

\* String.prototype.slice(from, to) for 0 <= from, to
RECURSIVE Slice(_, _, _)
Slice(t, from, to) ==
    IF Len(t) = 0 \/ to <= 0 \/ from >= to THEN <<>>
    ELSE IF from >= t[1].n THEN Slice(Tail(t), from - t[1].n, to - t[1].n)
    ELSE <<Run(t[1].c, Min(to, t[1].n) - from)>> \o Slice(Tail(t), 0, to - t[1].n)

\* the positions p at which "\n\n" matches are o .. o+n-2 for every run of
\* n >= 2 line feeds that starts at offset o
NewlineRuns(t) == {k \in 1..Len(t) : t[k].c = "n" /\ t[k].n >= 2}

SetMax(S) == CHOOSE x \in S : \A y \in S : y <= x
SetMin(S) == CHOOSE x \in S : \A y \in S : x <= y

\* String.prototype.lastIndexOf("\n\n", from): the last match at or before from
LastIndexOfBreak(t, from) ==
    LET cands == {Min(RunOffset(t, k) + t[k].n - 2, from) :
                    k \in {j \in NewlineRuns(t) : RunOffset(t, j) <= from}}
    IN IF cands = {} THEN -1 ELSE SetMax(cands)

\* String.prototype.indexOf("\n\n", from): the first match at or after from
IndexOfBreak(t, from) ==
    LET cands == {Max(RunOffset(t, k), from) :
                    k \in {j \in NewlineRuns(t) : RunOffset(t, j) + t[j].n - 2 >= from}}
    IN IF cands = {} THEN -1 ELSE SetMin(cands)

\* a splitter that leaves the line ends as they are
KeepCRLF(t) == t

\* text.replace(/\r\n/g, '\n'): of a run of carriage returns that a line feed
\* follows, the last one goes
ReplaceCRLF(t) ==
    Canon([k \in 1..Len(t) |->
            IF t[k].c = "r" /\ k < Len(t) /\ t[k + 1].c = "n"
            THEN Run("r", t[k].n - 1) ELSE t[k]])

\* text.trim().length > 0: some character is no whitespace
HasInk(t) == \E k \in 1..Len(t) : t[k].c = "a" /\ t[k].n > 0

\* ------------------------------------------------------------------------
\* Content parts (GeminiContentPart): a text part or an inline-data part, of
\* which only the length of the base64 data matters to this pipeline
\* ------------------------------------------------------------------------
TextPart(t) == [kind |-> "text", text |-> t, len |-> 0]
InlinePart(n) == [kind |-> "inline", text |-> <<>>, len |-> n]

\* getChunkTokenLimit; an absent limit is NoLimit, and 0 is falsy like it
NoLimit == -1
getChunkTokenLimit(modelTokenLimit) ==
    LET rawLimit == IF modelTokenLimit # NoLimit /\ modelTokenLimit # 0
                    THEN modelTokenLimit
                    ELSE DEFAULT_MODEL_TOKEN_LIMIT
        adjusted == ((rawLimit * SAFETY_MARGIN_NUM) \div SAFETY_MARGIN_DEN)
                        - PROMPT_BUFFER_TOKENS
    IN Max(adjusted, MIN_CHUNK_TOKEN_LIMIT)

\* getBinaryByteLimit is max(3145728 * 0.9, 524288) = 2831155.2: an integer x
\* exceeds it iff x * SAFETY_MARGIN_DEN exceeds the limit scaled by the same
ExceedsBinaryByteLimit(x) ==
    x * SAFETY_MARGIN_DEN >
        Max(DEFAULT_BINARY_BYTE_LIMIT * SAFETY_MARGIN_NUM,
            MIN_BINARY_BYTE_LIMIT * SAFETY_MARGIN_DEN)

estimateTokensForPart(part) ==
    IF part.kind = "text" /\ TextLength(part.text) > 0
    THEN Max(1, CeilDiv(TextLength(part.text), CHAR_PER_TOKEN_ESTIMATE))
    ELSE IF part.kind = "inline" /\ part.len > 0
    THEN Max(1, CeilDiv(part.len, CHAR_PER_TOKEN_ESTIMATE))
    ELSE 0

estimateBytesForPart(part) ==
    IF part.kind = "inline" /\ part.len > 0
    THEN CeilDiv(part.len * BASE64_TO_BYTES_NUM, BASE64_TO_BYTES_DEN)
    ELSE 0

\* ------------------------------------------------------------------------
\* Text splitter
\* ------------------------------------------------------------------------
\* one iteration of the loop of splitTextChunk with more than the ceiling
\* left: look back from the ceiling, then forward, then cut at the ceiling
\* a loop that takes a boundary at the cursor for one after it
SplitIndexAtCursor(normalized, start) ==
    LET tentativeEnd == start + TEXT_PART_CHAR_LIMIT
        back == LastIndexOfBreak(normalized, tentativeEnd)
        found == IF back < start THEN IndexOfBreak(normalized, tentativeEnd) ELSE back
    IN IF found < start THEN tentativeEnd ELSE found

\* a loop that looks forward before it looks back
SplitIndexForwardFirst(normalized, start) ==
    LET tentativeEnd == start + TEXT_PART_CHAR_LIMIT
        forward == IndexOfBreak(normalized, tentativeEnd)
        found == IF forward <= start THEN LastIndexOfBreak(normalized, tentativeEnd)
                 ELSE forward
    IN IF found <= start THEN tentativeEnd ELSE found

SplitIndex(normalized, start) ==
    LET tentativeEnd == start + TEXT_PART_CHAR_LIMIT
        back == LastIndexOfBreak(normalized, tentativeEnd)
        found == IF back <= start THEN IndexOfBreak(normalized, tentativeEnd) ELSE back
    IN IF found <= start THEN tentativeEnd ELSE found

\* a splitter that leaves the paragraph break it resumes at out of the block
pushSliceAfterBreak(chunks, normalized, start, end) ==
    Append(chunks, Slice(normalized, IF start > 0 THEN start + 2 ELSE start, end))

\* chunks.push(normalized.slice(start, end))
pushSlice(chunks, normalized, start, end) ==
    Append(chunks, Slice(normalized, start, end))

RECURSIVE SplitLoop(_, _, _)
SplitLoop(normalized, start, chunks) ==
    IF ~(start < TextLength(normalized)) THEN chunks
    ELSE IF TextLength(normalized) - start <= TEXT_PART_CHAR_LIMIT
    THEN pushSlice(chunks, normalized, start, TextLength(normalized))
    ELSE SplitLoop(normalized, SplitIndex(normalized, start),
                   pushSlice(chunks, normalized, start, SplitIndex(normalized, start)))

splitTextChunk(text) == SelectSeq(SplitLoop(ReplaceCRLF(text), 0, <<>>), HasInk)

splitTextIntoParts(text) ==
    IF ~HasInk(text) THEN <<>>
    ELSE [k \in 1..Len(splitTextChunk(text)) |-> TextPart(splitTextChunk(text)[k])]

\* ------------------------------------------------------------------------
\* Chunk packer
\* ------------------------------------------------------------------------
PackerStart ==
    [chunks |-> <<>>, chunkTokenEstimates |-> <<>>, currentChunk |-> <<>>,
     currentTokens |-> 0, currentBytes |-> 0, estimatedTokens |-> 0,
     thrown |-> FALSE]

\* flushChunk that forgets to start a new chunk
flushChunkKeeping(acc) ==
    IF Len(acc.currentChunk) > 0
    THEN [acc EXCEPT !.chunks = Append(@, acc.currentChunk),
                     !.chunkTokenEstimates = Append(@, acc.currentTokens)]
    ELSE acc

\* flushChunk that does not look whether the current chunk holds a part
flushChunkAlways(acc) ==
    [acc EXCEPT !.chunks = Append(@, acc.currentChunk),
                !.chunkTokenEstimates = Append(@, acc.currentTokens),
                !.currentChunk = <<>>,
                !.currentTokens = 0,
                !.currentBytes = 0]

\* flushChunk
flushChunk(acc) ==
    IF Len(acc.currentChunk) > 0
    THEN [acc EXCEPT !.chunks = Append(@, acc.currentChunk),
                     !.chunkTokenEstimates = Append(@, acc.currentTokens),
                     !.currentChunk = <<>>,
                     !.currentTokens = 0,
                     !.currentBytes = 0]
    ELSE acc

\* a part that is neither a text part nor an inline-data part
NoPart == [kind |-> "none", text |-> <<>>, len |-> 0]

\* a packer that forgets the byte budget
ClosesBeforeTokensOnly(acc, part, chunkTokenLimit) ==
    /\ acc.currentTokens + estimateTokensForPart(part) > chunkTokenLimit
    /\ Len(acc.currentChunk) > 0

\* a packer that closes the current chunk when the part would fill it exactly
ClosesBeforeEager(acc, part, chunkTokenLimit) ==
    LET wouldExceedTokens ==
            acc.currentTokens + estimateTokensForPart(part) >= chunkTokenLimit
        wouldExceedBytes ==
            ExceedsBinaryByteLimit(acc.currentBytes + estimateBytesForPart(part))
    IN (wouldExceedTokens \/ wouldExceedBytes) /\ Len(acc.currentChunk) > 0

\* a packer that closes the current chunk before every part
ClosesAlways(acc, part, chunkTokenLimit) == Len(acc.currentChunk) > 0

\* does the packer close the current chunk before it adds the part?
ClosesBefore(acc, part, chunkTokenLimit) ==
    LET wouldExceedTokens ==
            acc.currentTokens + estimateTokensForPart(part) > chunkTokenLimit
        wouldExceedBytes ==
            ExceedsBinaryByteLimit(acc.currentBytes + estimateBytesForPart(part))
    IN (wouldExceedTokens \/ wouldExceedBytes) /\ Len(acc.currentChunk) > 0

\* a packer without the check of the single part
TooLargeUnchecked(part) == FALSE

\* is the part an inline part that alone exceeds the byte limit?
TooLarge(part) ==
    part.kind = "inline" /\ ExceedsBinaryByteLimit(estimateBytesForPart(part))

\* the body of parts.forEach for one part
PackPart(acc, part, chunkTokenLimit) ==
    IF acc.thrown THEN acc
    ELSE IF TooLarge(part)
    THEN [acc EXCEPT !.thrown = TRUE,
                     !.estimatedTokens = @ + estimateTokensForPart(part)]
    ELSE LET a == IF ClosesBefore(acc, part, chunkTokenLimit)
                  THEN flushChunk(acc) ELSE acc
         IN [a EXCEPT !.currentChunk = Append(@, part),
                      !.currentTokens = @ + estimateTokensForPart(part),
                      !.currentBytes = @ + estimateBytesForPart(part),
                      !.estimatedTokens = @ + estimateTokensForPart(part)]

RECURSIVE PackAll(_, _, _)
PackAll(acc, parts, chunkTokenLimit) ==
    IF Len(parts) = 0 THEN acc
    ELSE PackAll(PackPart(acc, parts[1], chunkTokenLimit), Tail(parts), chunkTokenLimit)

\* chunkContentParts: thrown is TRUE when it throws the 'too large' error, and
\* then it returns nothing
chunkContentParts(parts, modelTokenLimit) ==
    LET chunkTokenLimit == getChunkTokenLimit(modelTokenLimit)
        acc == flushChunk(PackAll(PackerStart, parts, chunkTokenLimit))
    IN IF PackAll(PackerStart, parts, chunkTokenLimit).thrown
       THEN [thrown |-> TRUE, chunks |-> <<>>, chunkTokenEstimates |-> <<>>,
             estimatedTokens |-> 0, chunkTokenLimit |-> chunkTokenLimit]
       ELSE [thrown |-> FALSE,
             chunks |-> IF Len(acc.chunks) > 0 THEN acc.chunks
                        ELSE IF Len(parts) > 0 THEN <<parts>> ELSE <<>>,
             chunkTokenEstimates |->
                        IF Len(acc.chunkTokenEstimates) > 0 THEN acc.chunkTokenEstimates
                        ELSE IF Len(parts) > 0 THEN <<acc.estimatedTokens>> ELSE <<>>,
             estimatedTokens |-> acc.estimatedTokens,
             chunkTokenLimit |-> chunkTokenLimit]

\* the chunks of a chunk list, one after the other
RECURSIVE Flatten(_)
Flatten(chunks) == IF Len(chunks) = 0 THEN <<>> ELSE chunks[1] \o Flatten(Tail(chunks))

\* ------------------------------------------------------------------------
\* The remote collaborators
\* ------------------------------------------------------------------------
SumTokens(parts) ==
    LET RECURSIVE Sum(_)
        Sum(ps) == IF Len(ps) = 0 THEN 0 ELSE estimateTokensForPart(ps[1]) + Sum(Tail(ps))
    IN Sum(parts)

\* countTokensForParts on an endpoint that answers: the endpoint's count is a
\* function of the parts.  "exact" counts what the estimator estimates,
\* "double" and "triple" that many times more, "over" is above every budget.
Counters == {"exact", "double", "triple", "over"}
countTokensForParts(counter, parts, chunkTokenLimit) ==
    CASE counter = "exact" -> SumTokens(parts)
      [] counter = "double" -> 2 * SumTokens(parts)
      [] counter = "triple" -> 3 * SumTokens(parts)
      [] OTHER -> chunkTokenLimit + 1

\* An error of the generation call, as parseQuotaError reads it: status and
\* code, whether the message holds the word quota, the delay of the RetryInfo
\* detail after parseRetryDelayMs (NoDelay: none, or not a number) and the
\* delay of a "retry in Ns" hint of the message, in milliseconds.
NoDelay == -1
GenError(status, code, saysQuota, retryInfoMs, hintMs) ==
    [status |-> status, code |-> code, saysQuota |-> saysQuota,
     retryInfoMs |-> retryInfoMs, hintMs |-> hintMs]

GenErrors ==
    { GenError("UNAUTHENTICATED", 401, FALSE, NoDelay, NoDelay),
      GenError("RESOURCE_EXHAUSTED", 429, TRUE, 5000, NoDelay),
      GenError("RESOURCE_EXHAUSTED", 429, TRUE, NoDelay, 7000),
      GenError("RESOURCE_EXHAUSTED", 429, TRUE, 0, 7000),
      GenError("", 429, FALSE, NoDelay, NoDelay) }

\* parseQuotaError
parseQuotaError(error) ==
    LET isQuota == \/ error.status = "RESOURCE_EXHAUSTED"
                   \/ error.code = 429
                   \/ error.saysQuota
        fromDetails == error.retryInfoMs
        retryDelayMs == IF fromDetails = NoDelay \/ fromDetails = 0
                        THEN (IF error.hintMs # NoDelay THEN error.hintMs ELSE fromDetails)
                        ELSE fromDetails
    IN IF ~isQuota THEN [isQuota |-> FALSE, retryDelayMs |-> NoDelay]
       ELSE [isQuota |-> TRUE, retryDelayMs |-> retryDelayMs]

\* a count call that is made again after a quota error
CountRetriesQuota(isQuota) == isQuota

\* countTokensForParts has no catch block: a failed count is not made again
CountRetriesAfter(isQuota) == FALSE

\* a retry loop that allows one retry more
RetriesAfterInclusive(isQuota, attempt) ==
    isQuota /\ attempt <= MAX_RATE_LIMIT_RETRIES

\* a retry loop that retries whatever the error
RetriesAnyError(isQuota, attempt) == attempt < MAX_RATE_LIMIT_RETRIES

\* the catch block of generateMarkdownStream: retry or rethrow
RetriesAfter(isQuota, attempt) == isQuota /\ attempt < MAX_RATE_LIMIT_RETRIES

\* const waitMs = retryDelayMs ?? DEFAULT_RATE_LIMIT_DELAY_MS
WaitMs(retryDelayMs) ==
    IF retryDelayMs = NoDelay THEN DEFAULT_RATE_LIMIT_DELAY_MS ELSE retryDelayMs

\* ------------------------------------------------------------------------
\* Generated text: a sequence of the characters " ", "\n" and letters
\* ------------------------------------------------------------------------
IsSpace(ch) == ch \in {" ", "\n"}

RECURSIVE TrimStart(_)
TrimStart(str) ==
    IF Len(str) > 0 /\ IsSpace(str[1]) THEN TrimStart(Tail(str)) ELSE str

RECURSIVE TrimEnd(_)
TrimEnd(str) ==
    IF Len(str) > 0 /\ IsSpace(str[Len(str)])
    THEN TrimEnd(SubSeq(str, 1, Len(str) - 1)) ELSE str

\* String.prototype.trim
Trim(str) == TrimEnd(TrimStart(str))

\* fullMarkdown += (fullMarkdown ? '\n\n' : '') + chunkMarkdown.trim()
AppendMarkdown(fullMarkdown, chunkMarkdown) ==
    fullMarkdown \o (IF Len(fullMarkdown) > 0 THEN <<"\n", "\n">> ELSE <<>>)
                 \o Trim(chunkMarkdown)

\* if (chunkText) { fullText += chunkText; onStream(chunkText); }
AppendChunkText(fullText, chunkText) ==
    IF Len(chunkText) > 0 THEN fullText \o chunkText ELSE fullText

\* fullText declared outside the retry loop
KeepFullText(fullText) == fullText

\* let fullText = "" at the head of every attempt
FreshFullText(fullText) == <<>>

\* a loop that steps over a chunk
SkipChunk(i) == i + 2

\* i++ of the dispatch loop
NextChunk(i) == i + 1

\* a verifier that takes every single part for a text
HasTextAlways(part) == TRUE

\* singlePart?.text: the part has a text, and the text is not empty
HasText(part) == part.kind = "text" /\ TextLength(part.text) > 0

\* a midpoint one too low
MidpointOffByOne(parts) == CeilDiv(Len(parts), 2) - 1

\* the midpoint split of the verifier
Midpoint(parts) == CeilDiv(Len(parts), 2)

\* parts.slice(0, midpoint)
FirstHalf(parts, midpoint) == SubSeq(parts, 1, midpoint)

\* a second half that begins one part late
SecondHalfSkipping(parts, midpoint) == SubSeq(parts, midpoint + 2, Len(parts))

\* parts.slice(midpoint)
SecondHalf(parts, midpoint) == SubSeq(parts, midpoint + 1, Len(parts))

\* an attempt counter that outlives the call
KeepAttempt(attempt) == attempt

\* let attempt = 0 at the head of generateMarkdownStream
FreshAttempt(attempt) == 0

\* chunkContext of the dispatch loop: none for a job of one chunk
NoContext == [index |-> -1, total |-> -1]
ChunkContextOf(i, chunks) ==
    IF Len(chunks) > 1 THEN [index |-> i, total |-> Len(chunks)] ELSE NoContext

\* a prompt that announces the index as it is
chunkGuidanceZeroBased(chunkContext) ==
    IF chunkContext # NoContext /\ chunkContext.total > 1
    THEN <<chunkContext.index, chunkContext.total>>
    ELSE <<>>

\* chunkGuidance of buildGeminiPrompt: the two numbers of "You are processing
\* chunk X of Y", or nothing
chunkGuidance(chunkContext) ==
    IF chunkContext # NoContext /\ chunkContext.total > 1
    THEN <<chunkContext.index + 1, chunkContext.total>>
    ELSE <<>>

\* the chunk context of the verifier's count calls: countTokensForParts(parts,
\* settings, fileType, apiKey), the parameter chunkContext is left out
VerifierContext == NoContext

\* counts kept latest first
unshiftTokenCount(tokenCounts, tokenCount) == <<tokenCount>> \o tokenCounts

\* tokenCounts.push(tokenCount)
pushTokenCount(tokenCounts, tokenCount) == Append(tokenCounts, tokenCount)

\* tokenCounts.reduce((sum, value) => sum + value, 0)
RECURSIVE SumCounts(_)
SumCounts(tokenCounts) ==
    IF Len(tokenCounts) = 0 THEN 0 ELSE tokenCounts[1] + SumCounts(Tail(tokenCounts))

\* a verifier that returns with a group still to verify
AllVerifiedButLast(work) == Len(work) <= 1

\* the loop over initialChunks has ended, no call of splitChunkRecursively is
\* pending
AllVerified(work) == Len(work) = 0

\* a verifier that accepts one token too many
WithinLimitLoose(tokenCount, chunkTokenLimit) == tokenCount <= chunkTokenLimit + 1

\* does the verifier accept a group with this count?
WithinLimit(tokenCount, chunkTokenLimit) == tokenCount <= chunkTokenLimit

\* ------------------------------------------------------------------------
\* The inputs of a conversion job
\* ------------------------------------------------------------------------
A(n) == Run("a", n)
N(n) == Run("n", n)
S(n) == Run("s", n)
R(n) == Run("r", n)

\* texts of a source document: empty, blank, short, and three paragraphs of
\* 11,000 characters; longer ones: a paragraph of 20,000 characters before a
\* break, and 30,000 characters without a break
ShortTexts ==
    { <<>>,
      <<S(3)>>,
      <<A(400)>>,
      <<A(11000), N(2), A(11000), N(2), A(11000)>> }
PageTexts ==
    ShortTexts \cup { <<A(20000), N(2), A(1)>>, <<A(30000)>> }

\* processHtml reads the file's text as it is; one more text, a paragraph of
\* 40,000 characters before a break
HtmlTexts == PageTexts \cup { <<A(40000), N(2), A(1)>> }
\* processPdf ends the text of every page with "\n\n"; no page, no text
PdfTexts == {<<>>} \cup {Canon(t \o <<N(2)>>) : t \in ShortTexts}

\* base64 lengths of the images sent along (none in alt-text mode and for HTML)
ImageLists ==
    {<<>>, <<16000>>, <<2000000, 2000000>>, <<4000000>>, <<16000, 4000000, 16000>>}

\* inputTokenLimit of the selected model: none reported, one below the floor
\* of the chunk budget, one just above it, and a large one
ModelTokenLimits == {NoLimit, 4096, 8192, 4000000}

\* fragments the generation stream delivers, and how many an attempt delivers
\* at most in the model
Fragments == {<<>>, <<" ", "a", "\n">>}
MaxFragments == 1

VARIABLES
    fileType,        \* 'pdf' | 'html'
    allText,         \* allText / htmlText
    apiImages,       \* base64 lengths of apiImages
    modelTokenLimit,
    counter,         \* the endpoint's way of counting
    pc,              \* where the job stands
    chunkTokenLimit,
    work,            \* pending calls of splitChunkRecursively, first first
    safeChunks,      \* of ensureChunksWithinTokenLimit
    tokenCounts,
    countContexts,   \* the chunk context each of the counts was asked with
    totalTokens,     \* of the result of ensureChunksWithinTokenLimit
    chunks,          \* the verified chunks processPdf / processHtml dispatch
    i,               \* index of the dispatch loop
    attempt,         \* of generateMarkdownStream
    fullText,        \* of the current attempt
    sleepMs,         \* the argument of the pending sleep
    fullMarkdown,
    result,          \* <<markdown>> once the try block has completed
    error,           \* kind of the error thrown, "" while none
    inFlight,        \* awaited operations not yet settled
    \* history of the dispatch (of the current chunk's, but for outputs)
    genCalls,        \* generation requests issued
    notices,         \* backoff status notifications
    delaySum,        \* sum of the wait durations computed
    sleptMs,         \* sum of the sleeps completed
    attemptText,     \* fragments the current attempt has streamed
    fragments,       \* how many fragments the current attempt has streamed
    outputs,         \* the texts generateMarkdownStream has outputs, in order
    genTotal,        \* generation requests issued by the job
    chunkContext,    \* of the current call of generateMarkdownStream
    guidance,        \* the chunk guidance of its system prompt
    \* text splitter on its own
    sPc, sInput, sNormalized, sStart, sChunks, sResult,
    \* packer on its own
    pPc, pParts, pLimit, pResult,
    \* estimator on its own
    ePc, ePart, eTokens, eBytes,
    \* handleConvert and processFile around the job
    stage,               \* where handleConvert and processFile stand
    mimeType,            \* file.type
    sendImagesToGemini,
    numPages,
    pageNo,              \* i of the page loop of processPdf
    steps,               \* progress.steps, the status of each
    currentStep,
    overallStatus

jobVars == <<fileType, allText, apiImages, modelTokenLimit, counter, pc,
             chunkTokenLimit, work, safeChunks, tokenCounts, countContexts,
             totalTokens, chunks, i, attempt,
             fullText, sleepMs, fullMarkdown, result, error, inFlight, genCalls,
             notices, delaySum, sleptMs, attemptText, fragments, outputs, genTotal,
             chunkContext, guidance>>
splitVars == <<sPc, sInput, sNormalized, sStart, sChunks, sResult>>
packVars == <<pPc, pParts, pLimit, pResult>>
estVars == <<ePc, ePart, eTokens, eBytes>>
progressVars == <<steps, currentStep, overallStatus>>
fileVars == <<stage, mimeType, sendImagesToGemini, numPages, pageNo, progressVars>>
vars == <<jobVars, splitVars, packVars, estVars, fileVars>>

histVars == <<genCalls, notices, delaySum, sleptMs, attemptText, fragments, outputs,
              genTotal>>
ctxVars == <<chunkContext, guidance>>
dispatchVars == <<i, attempt, fullText, sleepMs, fullMarkdown>>
verifyVars == <<work, safeChunks, tokenCounts, countContexts, totalTokens, chunks>>
inputVars == <<fileType, allText, apiImages, modelTokenLimit, counter>>

\* the splitter and the packer at rest
SplitIdle ==
    /\ sPc = "off" /\ sInput = <<>> /\ sNormalized = <<>> /\ sStart = 0
    /\ sChunks = <<>> /\ sResult = <<>>
PackIdle ==
    /\ pPc = "off" /\ pParts = <<>> /\ pLimit = NoLimit /\ pResult = <<>>
EstIdle ==
    /\ ePc = "off" /\ ePart = NoPart /\ eTokens = 0 /\ eBytes = 0
\* no file handed in: the progress state as App creates it
FileIdle ==
    /\ stage = "off" /\ mimeType = "" /\ sendImagesToGemini = FALSE
    /\ numPages = 0 /\ pageNo = 0
    /\ steps = <<>> /\ currentStep = 0 /\ overallStatus = "idle"
JobIdle ==
    /\ fileType = "html" /\ allText = <<>> /\ apiImages = <<>>
    /\ modelTokenLimit = NoLimit /\ counter = "exact" /\ pc = "off"
    /\ chunkTokenLimit = 0 /\ work = <<>> /\ safeChunks = <<>> /\ tokenCounts = <<>>
    /\ countContexts = <<>> /\ totalTokens = 0
    /\ chunks = <<>> /\ i = 0 /\ attempt = 0 /\ fullText = <<>> /\ sleepMs = 0
    /\ fullMarkdown = <<>> /\ result = <<>> /\ error = "" /\ inFlight = {}
    /\ genCalls = 0 /\ notices = 0 /\ delaySum = 0 /\ sleptMs = 0
    /\ attemptText = <<>> /\ fragments = 0 /\ outputs = <<>>
    /\ genTotal = 0 /\ chunkContext = NoContext /\ guidance = <<>>

\* ------------------------------------------------------------------------
\* The conversion job: step 3 of processPdf, step 1 of processHtml
\* ------------------------------------------------------------------------
Init ==
    /\ fileType \in {"pdf", "html"}
    /\ allText \in (IF fileType = "pdf" THEN PdfTexts ELSE HtmlTexts)
    /\ apiImages \in (IF fileType = "pdf" THEN ImageLists ELSE {<<>>})
    /\ modelTokenLimit \in ModelTokenLimits
    /\ counter \in Counters
    /\ pc = "start"
    /\ chunkTokenLimit = 0 /\ work = <<>> /\ safeChunks = <<>> /\ tokenCounts = <<>>
    /\ countContexts = <<>> /\ totalTokens = 0
    /\ chunks = <<>> /\ i = 0 /\ attempt = 0 /\ fullText = <<>> /\ sleepMs = 0
    /\ fullMarkdown = <<>> /\ result = <<>> /\ error = "" /\ inFlight = {}
    /\ genCalls = 0 /\ notices = 0 /\ delaySum = 0 /\ sleptMs = 0
    /\ attemptText = <<>> /\ fragments = 0 /\ outputs = <<>>
    /\ genTotal = 0 /\ chunkContext = NoContext /\ guidance = <<>>
    /\ SplitIdle /\ PackIdle /\ EstIdle /\ FileIdle

\* the parts of the job: the text parts, then the images
JobParts ==
    splitTextIntoParts(allText)
        \o [k \in 1..Len(apiImages) |-> InlinePart(apiImages[k])]

\* a catch block that hands the caller what was generated so far
PartialOnFailure(markdown) == <<markdown>>

\* what the caller of the try block gets when it throws: the error, no Markdown
OnFailure(markdown) == <<>>

\* the catch block: the job fails with the error, whatever was awaited is gone
Throw(kind) ==
    /\ pc' = "failed"
    /\ error' = kind
    /\ result' = OnFailure(fullMarkdown)
    /\ inFlight' = {}

WorkItem(parts, depth, root) == [parts |-> parts, depth |-> depth, root |-> root]

\* a job that goes on with no chunk at all
NoContentIgnored(estimatedChunks) == FALSE

\* if (!estimatedChunks.length): nothing was extracted, nothing was provided
NoContent(estimatedChunks) == Len(estimatedChunks) = 0

\* split into parts, pack, and enter ensureChunksWithinTokenLimit
Prepare ==
    /\ pc = "start"
    /\ LET packed == chunkContentParts(JobParts, modelTokenLimit) IN
       IF packed.thrown
       THEN /\ Throw("tooLarge")
            /\ UNCHANGED <<chunkTokenLimit, work>>
       ELSE IF NoContent(packed.chunks)
       THEN /\ Throw("noContent")
            /\ chunkTokenLimit' = packed.chunkTokenLimit
            /\ UNCHANGED work
       ELSE /\ pc' = "verify"
            /\ chunkTokenLimit' = packed.chunkTokenLimit
            /\ work' = [k \in 1..Len(packed.chunks) |->
                            WorkItem(packed.chunks[k], 0, Len(packed.chunks[k]))]
            /\ UNCHANGED <<result, error, inFlight>>
    /\ UNCHANGED <<inputVars, safeChunks, tokenCounts, countContexts, totalTokens,
                   chunks, dispatchVars, histVars, ctxVars>>
    /\ UNCHANGED <<splitVars, packVars, estVars, fileVars>>

\* splitChunkRecursively is entered with the next group: an empty group
\* returns at once, any other is sent to the counter; with no group left
\* ensureChunksWithinTokenLimit returns and the dispatch loop is entered
VerifyNext ==
    /\ pc = "verify"
    /\ IF AllVerified(work)
       THEN /\ pc' = "dispatch"
            /\ chunks' = safeChunks
            /\ totalTokens' = SumCounts(tokenCounts)
            /\ UNCHANGED <<work, inFlight>>
       ELSE IF Len(work[1].parts) = 0
       THEN /\ work' = Tail(work)
            /\ UNCHANGED <<pc, chunks, totalTokens, inFlight>>
       ELSE /\ pc' = "counting"
            /\ inFlight' = inFlight \cup {"count"}
            /\ UNCHANGED <<work, chunks, totalTokens>>
    /\ UNCHANGED <<inputVars, chunkTokenLimit, safeChunks, tokenCounts, countContexts,
                   dispatchVars, result, error, histVars, ctxVars>>
    /\ UNCHANGED <<splitVars, packVars, estVars, fileVars>>

\* the counter answers
CountReturns ==
    /\ pc = "counting"
    /\ LET parts == work[1].parts
           tokenCount == countTokensForParts(counter, parts, chunkTokenLimit)
           midpoint == Midpoint(parts)
           smallerParts == splitTextIntoParts(parts[1].text)
       IN
       IF WithinLimit(tokenCount, chunkTokenLimit)
       THEN /\ safeChunks' = Append(safeChunks, parts)
            /\ tokenCounts' = pushTokenCount(tokenCounts, tokenCount)
            /\ countContexts' = Append(countContexts, VerifierContext)
            /\ work' = Tail(work)
            /\ pc' = "verify"
            /\ inFlight' = inFlight \ {"count"}
            /\ UNCHANGED <<result, error>>
       ELSE IF Len(parts) = 1
       THEN IF HasText(parts[1])
            THEN IF Len(smallerParts) = 0
                 THEN /\ Throw("unsplittable")
                      /\ UNCHANGED <<safeChunks, tokenCounts, countContexts, work>>
                 ELSE /\ work' = <<WorkItem(smallerParts, 0, Len(smallerParts))>>
                                    \o Tail(work)
                      /\ pc' = "verify"
                      /\ inFlight' = inFlight \ {"count"}
                      /\ UNCHANGED <<safeChunks, tokenCounts, countContexts, result, error>>
            ELSE /\ Throw("binaryOver")
                 /\ UNCHANGED <<safeChunks, tokenCounts, countContexts, work>>
       ELSE /\ work' = <<WorkItem(FirstHalf(parts, midpoint),
                                  work[1].depth + 1, work[1].root),
                         WorkItem(SecondHalf(parts, midpoint),
                                  work[1].depth + 1, work[1].root)>>
                            \o Tail(work)
            /\ pc' = "verify"
            /\ inFlight' = inFlight \ {"count"}
            /\ UNCHANGED <<safeChunks, tokenCounts, countContexts, result, error>>
    /\ UNCHANGED <<inputVars, chunkTokenLimit, chunks, totalTokens, dispatchVars,
                   histVars, ctxVars>>
    /\ UNCHANGED <<splitVars, packVars, estVars, fileVars>>

\* the count call fails (the request is rejected, for quota or for another
\* reason, or no count comes back): the error goes through countTokensForParts
\* and the verifier to the catch block of the job
CountThrows(e) ==
    /\ pc = "counting"
    /\ LET parsed == parseQuotaError(e) IN
       IF CountRetriesAfter(parsed.isQuota)
       THEN /\ notices' = notices + 1
            /\ UNCHANGED <<pc, result, error, inFlight>>
       ELSE /\ Throw(IF parsed.isQuota THEN "countQuota" ELSE "countFailed")
            /\ UNCHANGED notices
    /\ UNCHANGED <<inputVars, chunkTokenLimit, verifyVars, dispatchVars, genCalls,
                   delaySum, sleptMs, attemptText, fragments, outputs, genTotal,
                   ctxVars>>
    /\ UNCHANGED <<splitVars, packVars, estVars, fileVars>>

\* the head of the dispatch loop: with a chunk left, generateMarkdownStream is
\* called and issues its first request; with none left the try block completes
SendChunk ==
    /\ pc = "dispatch"
    /\ IF i < Len(chunks)
       THEN /\ pc' = "sending"
            /\ chunkContext' = ChunkContextOf(i, chunks)
            /\ guidance' = chunkGuidance(ChunkContextOf(i, chunks))
            /\ attempt' = FreshAttempt(attempt)
            /\ fullText' = FreshFullText(fullText)
            /\ inFlight' = inFlight \cup {"generate"}
            /\ genCalls' = 1
            /\ genTotal' = genTotal + 1
            /\ notices' = 0 /\ delaySum' = 0 /\ sleptMs' = 0
            /\ attemptText' = <<>> /\ fragments' = 0
            /\ UNCHANGED <<result, outputs>>
       ELSE /\ pc' = "done"
            /\ result' = <<fullMarkdown>>
            /\ UNCHANGED <<attempt, fullText, inFlight, histVars, ctxVars>>
    /\ UNCHANGED <<inputVars, chunkTokenLimit, verifyVars, i, sleepMs, fullMarkdown, error>>
    /\ UNCHANGED <<splitVars, packVars, estVars, fileVars>>

\* the stream delivers a fragment; an empty one is passed over
StreamFragment(chunkText) ==
    /\ pc = "sending"
    /\ fragments < MaxFragments
    /\ fragments' = fragments + 1
    /\ fullText' = AppendChunkText(fullText, chunkText)
    /\ attemptText' = attemptText \o chunkText
    /\ UNCHANGED <<inputVars, pc, chunkTokenLimit, verifyVars, i, attempt, sleepMs,
                   fullMarkdown, result, error, inFlight, genCalls, notices, delaySum,
                   sleptMs, outputs, genTotal, ctxVars>>
    /\ UNCHANGED <<splitVars, packVars, estVars, fileVars>>

\* the stream ends: generateMarkdownStream returns fullText, the loop appends
\* it and moves on
GenReturns ==
    /\ pc = "sending"
    /\ fullMarkdown' = AppendMarkdown(fullMarkdown, fullText)
    /\ outputs' = Append(outputs, fullText)
    /\ i' = NextChunk(i)
    /\ pc' = "dispatch"
    /\ inFlight' = inFlight \ {"generate"}
    /\ UNCHANGED <<inputVars, chunkTokenLimit, verifyVars, attempt, fullText, sleepMs,
                   result, error, genCalls, notices, delaySum, sleptMs, attemptText,
                   fragments, genTotal, ctxVars>>
    /\ UNCHANGED <<splitVars, packVars, estVars, fileVars>>

\* the request or its stream fails: a quota error with retries left is
\* announced and waited for, any other error is rethrown
GenThrows(e) ==
    /\ pc = "sending"
    /\ LET parsed == parseQuotaError(e) IN
       IF RetriesAfter(parsed.isQuota, attempt)
       THEN /\ attempt' = attempt + 1
            /\ notices' = notices + 1
            /\ sleepMs' = WaitMs(parsed.retryDelayMs)
            /\ delaySum' = delaySum + WaitMs(parsed.retryDelayMs)
            /\ pc' = "sleeping"
            /\ inFlight' = (inFlight \ {"generate"}) \cup {"sleep"}
            /\ UNCHANGED <<result, error>>
       ELSE /\ Throw(IF parsed.isQuota THEN "quota" ELSE "other")
            /\ UNCHANGED <<attempt, notices, sleepMs, delaySum>>
    /\ UNCHANGED <<inputVars, chunkTokenLimit, verifyVars, i, fullText, fullMarkdown,
                   genCalls, sleptMs, attemptText, fragments, outputs, genTotal, ctxVars>>
    /\ UNCHANGED <<splitVars, packVars, estVars, fileVars>>

\* the sleep is over: the loop of generateMarkdownStream issues the next request
WakeUp ==
    /\ pc = "sleeping"
    /\ sleptMs' = sleptMs + sleepMs
    /\ pc' = "sending"
    /\ fullText' = FreshFullText(fullText)
    /\ attemptText' = <<>>
    /\ fragments' = 0
    /\ genCalls' = genCalls + 1
    /\ genTotal' = genTotal + 1
    /\ sleepMs' = 0
    /\ inFlight' = (inFlight \ {"sleep"}) \cup {"generate"}
    /\ UNCHANGED <<inputVars, chunkTokenLimit, verifyVars, i, attempt,
                   fullMarkdown, result, error, notices, delaySum, outputs, ctxVars>>
    /\ UNCHANGED <<splitVars, packVars, estVars, fileVars>>

Next ==
    \/ Prepare
    \/ VerifyNext
    \/ CountReturns
    \/ \E e \in GenErrors : CountThrows(e)
    \/ SendChunk
    \/ \E chunkText \in Fragments : StreamFragment(chunkText)
    \/ GenReturns
    \/ \E e \in GenErrors : GenThrows(e)
    \/ WakeUp

Spec == Init /\ [][Next]_vars

\* A job under way never just stops: a continuation runs once what it awaits
\* has settled, and every remote call and every sleep settles (a call by
\* returning or by throwing).
FairSpec ==
    /\ Spec
    /\ WF_vars(VerifyNext)
    /\ WF_vars(CountReturns \/ \E e \in GenErrors : CountThrows(e))
    /\ WF_vars(SendChunk)
    /\ WF_vars(GenReturns \/ \E e \in GenErrors : GenThrows(e))
    /\ WF_vars(WakeUp)

\* ------------------------------------------------------------------------
\* The text splitter on its own, on every text of a few runs
\* ------------------------------------------------------------------------
Chars == {"a", "s", "n", "r"}
RunLens == {1, 2, 5999, 12000, 20000}
MaxRuns == 3

SplitTexts ==
    UNION {{t \in [1..k -> [c : Chars, n : RunLens]] : IsCanon(t)} : k \in 0..MaxRuns}

\* six paragraphs of 4,998 characters, a blank line between every two
SixParagraphs ==
    <<A(4998), N(2), A(4998), N(2), A(4998), N(2), A(4998), N(2), A(4998), N(2),
      A(4998)>>

SplitInit ==
    /\ sPc = "call" /\ sInput \in (SplitTexts \cup {SixParagraphs}) /\ sNormalized = <<>> /\ sStart = 0
    /\ sChunks = <<>> /\ sResult = <<>>
    /\ JobIdle /\ PackIdle /\ EstIdle /\ FileIdle

\* splitTextIntoParts is entered: a blank text has no parts, any other is
\* normalized and enters the loop of splitTextChunk
SplitEnter ==
    /\ sPc = "call"
    /\ IF ~HasInk(sInput)
       THEN /\ sPc' = "done"
            /\ UNCHANGED sNormalized
       ELSE /\ sPc' = "loop"
            /\ sNormalized' = ReplaceCRLF(sInput)
    /\ UNCHANGED <<sInput, sStart, sChunks, sResult>>
    /\ UNCHANGED <<jobVars, packVars, estVars, fileVars>>

\* one iteration of the loop
SplitIterate ==
    /\ sPc = "loop"
    /\ sStart < TextLength(sNormalized)
    /\ IF TextLength(sNormalized) - sStart <= TEXT_PART_CHAR_LIMIT
       THEN /\ sChunks' = pushSlice(sChunks, sNormalized, sStart, TextLength(sNormalized))
            /\ sPc' = "filter"
            /\ UNCHANGED sStart
       ELSE /\ sChunks' = pushSlice(sChunks, sNormalized, sStart,
                                    SplitIndex(sNormalized, sStart))
            /\ sStart' = SplitIndex(sNormalized, sStart)
            /\ UNCHANGED sPc
    /\ UNCHANGED <<sInput, sNormalized, sResult>>
    /\ UNCHANGED <<jobVars, packVars, estVars, fileVars>>

\* the loop is left: blank chunks are dropped, the others become parts
SplitReturn ==
    /\ \/ sPc = "filter"
       \/ sPc = "loop" /\ ~(sStart < TextLength(sNormalized))
    /\ sResult' = [k \in 1..Len(SelectSeq(sChunks, HasInk)) |->
                        TextPart(SelectSeq(sChunks, HasInk)[k])]
    /\ sPc' = "done"
    /\ UNCHANGED <<sInput, sNormalized, sStart, sChunks>>
    /\ UNCHANGED <<jobVars, packVars, estVars, fileVars>>

SplitNext == SplitEnter \/ SplitIterate \/ SplitReturn

SpecSplit == SplitInit /\ [][SplitNext]_vars

\* ------------------------------------------------------------------------
\* The packer on its own, on every sequence of a few parts
\* ------------------------------------------------------------------------
PackParts ==
    { TextPart(<<>>), TextPart(<<A(12000)>>), TextPart(<<A(20000)>>),
      TextPart(<<A(40000)>>), InlinePart(0), InlinePart(16000),
      InlinePart(2000000), InlinePart(4000000) }
MaxParts == 3

\* limits the packer is called with: those of the jobs, 0, 1, and the two
\* around the place where the adjusted limit leaves the floor
PackLimits == ModelTokenLimits \cup {0, 1, 11112, 11113}

PackInputs == UNION {[1..k -> PackParts] : k \in 0..MaxParts}

PackInit ==
    /\ pPc = "call" /\ pParts \in PackInputs /\ pLimit \in PackLimits
    /\ pResult = <<>>
    /\ JobIdle /\ SplitIdle /\ EstIdle /\ FileIdle

PackCall ==
    /\ pPc = "call"
    /\ pResult' = chunkContentParts(pParts, pLimit)
    /\ pPc' = "done"
    /\ UNCHANGED <<pParts, pLimit>>
    /\ UNCHANGED <<jobVars, splitVars, estVars, fileVars>>

PackNext == PackCall

SpecPack == PackInit /\ [][PackNext]_vars

\* ------------------------------------------------------------------------
\* The estimator on its own: texts and base64 data of every length up to
\* MaxEstLen and of a few greater lengths, an empty text, an inline part
\* without data, and a part that is neither
\* ------------------------------------------------------------------------
MaxEstLen == 40
EstLens == (0..MaxEstLen) \cup {11999, 12000, 12001, 2000000, 4000001}

EstParts ==
    {TextPart(Canon(<<Run(c, n)>>)) : c \in {"a", "s"}, n \in EstLens}
        \cup {InlinePart(n) : n \in EstLens}
        \cup {NoPart}

EstInit ==
    /\ ePc = "call" /\ ePart \in EstParts /\ eTokens = 0 /\ eBytes = 0
    /\ JobIdle /\ SplitIdle /\ PackIdle /\ FileIdle

\* the packer's two calls for a part
EstCall ==
    /\ ePc = "call"
    /\ eTokens' = estimateTokensForPart(ePart)
    /\ eBytes' = estimateBytesForPart(ePart)
    /\ ePc' = "done"
    /\ UNCHANGED ePart
    /\ UNCHANGED <<jobVars, splitVars, packVars, fileVars>>

EstNext == EstCall

SpecEst == EstInit /\ [][EstNext]_vars

\* ------------------------------------------------------------------------
\* The job, the splitter on its own and the packer on its own, side by side
\* ------------------------------------------------------------------------
SpecAll ==
    (Init \/ SplitInit \/ PackInit) /\ [][Next \/ SplitNext \/ PackNext]_vars

\* ------------------------------------------------------------------------
\* handleConvert and processFile: the stages around the job, and the progress
\* state the progress modal shows
\* ------------------------------------------------------------------------
\* the steps processPdf and processHtml announce, all pending
PdfSteps == <<"pending", "pending", "pending", "pending", "pending">>
HtmlSteps == <<"pending", "pending", "pending">>

ProgressState(s, c, o) == [steps |-> s, currentStep |-> c, overallStatus |-> o]

\* updateStep(index, status): a step the state does not have leaves it as it is
updateStep(prev, index, status) ==
    IF index + 1 \notin DOMAIN prev.steps THEN prev
    ELSE [prev EXCEPT !.steps[index + 1] = status, !.currentStep = index]

\* setProgress(prev => ({...prev, overallStatus}))
setOverallStatus(prev, status) == [prev EXCEPT !.overallStatus = status]

\* setProgress(next)
setProgress(next) ==
    /\ steps' = next.steps
    /\ currentStep' = next.currentStep
    /\ overallStatus' = next.overallStatus

progress == ProgressState(steps, currentStep, overallStatus)

\* the step of the job: 'Generating Markdown from content' of processPdf,
\* 'Converting text content' of processHtml
generatingStepIndex == IF mimeType = "application/pdf" THEN 3 ELSE 1

\* file types handed in, the text of a page of a PDF, and how many pages a
\* PDF has at most in the model
MimeTypes == {"application/pdf", "text/html", "text/plain"}
FilePageTexts == {<<>>, <<A(400)>>, <<A(11000)>>}
FileImageLists == {<<>>, <<16000>>}
MaxPages == 2

\* everything of the job but its inputs, where it stands and its error
jobRun == <<chunkTokenLimit, verifyVars, dispatchVars, result, inFlight,
            histVars, ctxVars>>

\* processFile rejects with an error thrown outside the try block of the job
FileThrow(kind) ==
    /\ stage' = "failed"
    /\ error' = kind
    /\ UNCHANGED <<inputVars, pc, jobRun>>

\* a file has been chosen, the API key is there
FileInit ==
    /\ stage = "main"
    /\ mimeType \in MimeTypes
    /\ sendImagesToGemini \in (IF mimeType = "application/pdf" THEN BOOLEAN ELSE {FALSE})
    /\ numPages = 0 /\ pageNo = 0
    /\ steps = <<>> /\ currentStep = 0 /\ overallStatus = "idle"
    /\ fileType = (IF mimeType = "application/pdf" THEN "pdf" ELSE "html")
    /\ allText = <<>> /\ apiImages = <<>>
    /\ modelTokenLimit \in {NoLimit, 8192}
    /\ counter \in Counters
    /\ pc = "off"
    /\ chunkTokenLimit = 0 /\ work = <<>> /\ safeChunks = <<>> /\ tokenCounts = <<>>
    /\ countContexts = <<>> /\ totalTokens = 0
    /\ chunks = <<>> /\ i = 0 /\ attempt = 0 /\ fullText = <<>> /\ sleepMs = 0
    /\ fullMarkdown = <<>> /\ result = <<>> /\ error = "" /\ inFlight = {}
    /\ genCalls = 0 /\ notices = 0 /\ delaySum = 0 /\ sleptMs = 0
    /\ attemptText = <<>> /\ fragments = 0 /\ outputs = <<>>
    /\ genTotal = 0 /\ chunkContext = NoContext /\ guidance = <<>>
    /\ SplitIdle /\ PackIdle /\ EstIdle

\* handleConvert shows the progress modal and calls processFile, which runs
\* up to its first await: processPdf and processHtml announce their steps and
\* begin to read the file; any other file type is thrown back at
\* handleConvert, whose catch block logs the error
HandleConvert ==
    /\ stage = "main"
    /\ LET shown == ProgressState(<<>>, 0, "running") IN
       IF mimeType = "application/pdf"
       THEN /\ setProgress(updateStep(ProgressState(PdfSteps, 0, "running"),
                                      0, "in-progress"))
            /\ stage' = "reading"
            /\ UNCHANGED jobVars
       ELSE IF mimeType = "text/html"
       THEN /\ setProgress(updateStep(ProgressState(HtmlSteps, 0, "running"),
                                      0, "in-progress"))
            /\ stage' = "reading"
            /\ UNCHANGED jobVars
       ELSE /\ setProgress(shown)
            /\ FileThrow("unsupportedType")
    /\ UNCHANGED <<mimeType, sendImagesToGemini, numPages, pageNo>>
    /\ UNCHANGED <<splitVars, packVars, estVars>>

\* fileToArrayBuffer / fileToText resolves: processPdf goes on to load the
\* document; processHtml has its text and enters the try block of the job
ReadReturns ==
    /\ stage = "reading"
    /\ setProgress(updateStep(updateStep(progress, 0, "completed"), 1, "in-progress"))
    /\ IF mimeType = "application/pdf"
       THEN /\ stage' = "loading"
            /\ UNCHANGED <<allText, pc>>
       ELSE /\ stage' = "generating"
            /\ \E htmlText \in ShortTexts : allText' = htmlText
            /\ pc' = "start"
    /\ UNCHANGED <<mimeType, sendImagesToGemini, numPages, pageNo>>
    /\ UNCHANGED <<fileType, apiImages, modelTokenLimit, counter, jobRun, error>>
    /\ UNCHANGED <<splitVars, packVars, estVars>>

\* the FileReader fails: the rejection is thrown out of processPdf /
\* processHtml, outside of any try block
ReadThrows ==
    /\ stage = "reading"
    /\ FileThrow("readFailed")
    /\ UNCHANGED <<mimeType, sendImagesToGemini, numPages, pageNo, progressVars>>
    /\ UNCHANGED <<splitVars, packVars, estVars>>

\* the end of step 1: with images to send groupImages is awaited, without,
\* step 2 is over at once and the try block of the job is entered
AfterExtraction ==
    LET extracted == updateStep(updateStep(progress, 1, "completed"), 2, "in-progress")
    IN IF sendImagesToGemini
       THEN /\ setProgress(extracted)
            /\ stage' = "grouping"
            /\ UNCHANGED pc
       ELSE /\ setProgress(updateStep(updateStep(extracted, 2, "completed"),
                                      generatingStepIndex, "in-progress"))
            /\ stage' = "generating"
            /\ pc' = "start"

\* pdfjs has loaded the document: the page loop begins, or has nothing to do
LoadReturns ==
    /\ stage = "loading"
    /\ \E n \in 0..MaxPages :
          /\ numPages' = n
          /\ IF n = 0
             THEN /\ AfterExtraction
                  /\ UNCHANGED pageNo
             ELSE /\ pageNo' = 1
                  /\ stage' = "page"
                  /\ UNCHANGED <<progressVars, pc>>
    /\ UNCHANGED <<mimeType, sendImagesToGemini>>
    /\ UNCHANGED <<fileType, allText, apiImages, modelTokenLimit, counter, jobRun, error>>
    /\ UNCHANGED <<splitVars, packVars, estVars>>

\* a page has been read, its text and images extracted: allText += pageText
\* (in alt-text mode the image placeholders are part of the text)
PageReturns ==
    /\ stage = "page"
    /\ \E pageText \in FilePageTexts : allText' = Canon(allText \o pageText \o <<N(2)>>)
    /\ IF pageNo < numPages
       THEN /\ pageNo' = pageNo + 1
            /\ UNCHANGED <<stage, progressVars, pc>>
       ELSE /\ AfterExtraction
            /\ UNCHANGED pageNo
    /\ UNCHANGED <<mimeType, sendImagesToGemini, numPages>>
    /\ UNCHANGED <<fileType, apiImages, modelTokenLimit, counter, jobRun, error>>
    /\ UNCHANGED <<splitVars, packVars, estVars>>

\* loading the document, reading a page or extracting its images fails: the
\* catch block of step 1
ExtractThrows ==
    /\ stage \in {"loading", "page"}
    /\ setProgress(setOverallStatus(updateStep(progress, 1, "error"), "error"))
    /\ FileThrow("extractionFailed")
    /\ UNCHANGED <<mimeType, sendImagesToGemini, numPages, pageNo>>
    /\ UNCHANGED <<splitVars, packVars, estVars>>

\* groupImages resolves: the try block of the job is entered
GroupReturns ==
    /\ stage = "grouping"
    /\ \E images \in FileImageLists : apiImages' = images
    /\ setProgress(updateStep(updateStep(progress, 2, "completed"),
                              generatingStepIndex, "in-progress"))
    /\ stage' = "generating"
    /\ pc' = "start"
    /\ UNCHANGED <<mimeType, sendImagesToGemini, numPages, pageNo>>
    /\ UNCHANGED <<fileType, allText, modelTokenLimit, counter, jobRun, error>>
    /\ UNCHANGED <<splitVars, packVars, estVars>>

\* groupImages rejects, outside of any try block
GroupThrows ==
    /\ stage = "grouping"
    /\ FileThrow("groupingFailed")
    /\ UNCHANGED <<mimeType, sendImagesToGemini, numPages, pageNo, progressVars>>
    /\ UNCHANGED <<splitVars, packVars, estVars>>

\* the try block of the job has thrown: its catch block
GenerateCatch ==
    /\ stage = "generating" /\ pc = "failed"
    /\ setProgress(setOverallStatus(updateStep(progress, generatingStepIndex, "error"),
                                    "error"))
    /\ stage' = "failed"
    /\ UNCHANGED <<mimeType, sendImagesToGemini, numPages, pageNo>>
    /\ UNCHANGED <<jobVars, splitVars, packVars, estVars>>

\* the try block of the job has completed: processHtml assembles and returns;
\* processPdf builds the archive, whose folder may be missing, and awaits it
GenerateCompletes ==
    /\ stage = "generating" /\ pc = "done"
    /\ LET generated == updateStep(progress, generatingStepIndex, "completed") IN
       IF mimeType = "application/pdf"
       THEN /\ setProgress(updateStep(generated, 4, "in-progress"))
            /\ \E assets \in BOOLEAN :
                  IF assets
                  THEN stage' = "zipping" /\ UNCHANGED jobVars
                  ELSE FileThrow("noZipFolder")
       ELSE /\ setProgress(setOverallStatus(
                    updateStep(updateStep(generated, 2, "in-progress"), 2, "completed"),
                    "completed"))
            /\ stage' = "returned"
            /\ UNCHANGED jobVars
    /\ UNCHANGED <<mimeType, sendImagesToGemini, numPages, pageNo>>
    /\ UNCHANGED <<splitVars, packVars, estVars>>

\* zip.generateAsync resolves: processPdf returns
ZipReturns ==
    /\ stage = "zipping"
    /\ setProgress(setOverallStatus(updateStep(progress, 4, "completed"), "completed"))
    /\ stage' = "returned"
    /\ UNCHANGED <<mimeType, sendImagesToGemini, numPages, pageNo>>
    /\ UNCHANGED <<jobVars, splitVars, packVars, estVars>>

\* zip.generateAsync rejects, outside of any try block
ZipThrows ==
    /\ stage = "zipping"
    /\ FileThrow("archiveFailed")
    /\ UNCHANGED <<mimeType, sendImagesToGemini, numPages, pageNo, progressVars>>
    /\ UNCHANGED <<splitVars, packVars, estVars>>

FileNext ==
    \/ HandleConvert
    \/ ReadReturns
    \/ ReadThrows
    \/ LoadReturns
    \/ PageReturns
    \/ ExtractThrows
    \/ GroupReturns
    \/ GroupThrows
    \/ GenerateCatch
    \/ GenerateCompletes
    \/ ZipReturns
    \/ ZipThrows

SpecFile == FileInit /\ [][FileNext \/ Next]_vars

\* ------------------------------------------------------------------------
\* Properties
\* ------------------------------------------------------------------------
Last(seq) == seq[Len(seq)]

\* C1: every chunk the verifier has accepted, and every chunk it returns, has
\* a count, as the counter gives it for the chunk's parts, within
\* chunkTokenLimit
C1_BudgetRespected ==
    /\ \A k \in 1..Len(safeChunks) :
          /\ countTokensForParts(counter, safeChunks[k], chunkTokenLimit) <= chunkTokenLimit
          /\ tokenCounts[k] = countTokensForParts(counter, safeChunks[k], chunkTokenLimit)
    /\ \A k \in 1..Len(chunks) :
          countTokensForParts(counter, chunks[k], chunkTokenLimit) <= chunkTokenLimit

\* a job whose packed chunks the verifier had to split further, completed
C1_Witness ==
    /\ pc = "done" /\ counter = "double" /\ Len(chunks) >= 3
    /\ \E k \in 1..Len(chunks) : tokenCounts[k] > chunkTokenLimit \div 2

\* C2: no dispatch of a chunk makes a fifth request, and one that fails on a
\* quota error has made exactly 4 requests and 3 announced waits, whose
\* durations sum to the 3 delays computed, and leaves nothing awaited
C2_RetryBound ==
    /\ genCalls <= 4
    /\ (pc = "failed" /\ error = "quota") =>
          /\ genCalls = 4
          /\ attempt = 3
          /\ notices = 3
          /\ sleptMs = delaySum
          /\ inFlight = {}

\* the second chunk fails for good after waits of 5, 7 and 20 seconds
C2_Witness ==
    /\ pc = "failed" /\ error = "quota" /\ i = 1
    /\ genCalls = 4 /\ sleptMs = 5000 + 7000 + 20000

\* C3: when the dispatch of a chunk has returned after k quota errors, it has
\* made k+1 requests, k notifications and waits summing to the k delays
\* computed, and returned what the last request streamed; every notification
\* is made before its wait is over
C3_QuotaRecovery ==
    /\ (pc = "dispatch" /\ i > 0) =>
          /\ attempt \in 0..3
          /\ genCalls = attempt + 1
          /\ notices = attempt
          /\ sleptMs = delaySum
          /\ Len(outputs) > 0
          /\ Last(outputs) = attemptText
    /\ pc = "sleeping" =>
          /\ notices = genCalls
          /\ sleptMs + sleepMs = delaySum

\* two quota errors with a structured delay of 5 s each, then a stream of
\* " a\n": 10 s waited, 2 notifications, " a\n" returned
C3_Witness ==
    /\ pc = "dispatch" /\ i > 0
    /\ attempt = 2 /\ genCalls = 3 /\ notices = 2 /\ sleptMs = 10000
    /\ Last(outputs) = <<" ", "a", "\n">>

\* C4: an error that is no quota error fails the job at once, whatever the
\* number of quota retries before it: no wait, no notification, no request
\* follows it
C4_OtherErrorPropagates ==
    /\ [](error = "other" =>
            /\ pc = "failed"
            /\ inFlight = {}
            /\ genCalls = attempt + 1
            /\ notices = attempt
            /\ sleptMs = delaySum)
    /\ [][(\E e \in GenErrors : ~parseQuotaError(e).isQuota /\ GenThrows(e))
            => (pc' = "failed" /\ error' = "other"
                /\ UNCHANGED <<genCalls, notices, delaySum, sleptMs, i>>)]_vars
    /\ [][pc = "failed" => UNCHANGED vars]_vars

\* the second chunk fails on an authentication error after two quota retries
C4_Witness ==
    /\ pc = "failed" /\ error = "other" /\ i = 1 /\ attempt = 2 /\ Len(chunks) >= 3

\* C5: at most one remote call or wait is pending at any time; a generation
\* request for chunk i is pending only when exactly the chunks before it have
\* returned, and none while the verifier still counts
C5_Sequential ==
    /\ Cardinality(inFlight) <= 1
    /\ "generate" \in inFlight => (Len(outputs) = i /\ i < Len(chunks))
    /\ "sleep" \in inFlight => (Len(outputs) = i /\ i < Len(chunks))
    /\ "count" \in inFlight => Len(outputs) = 0

\* the third chunk's request is pending after a retry
C5_Witness ==
    /\ "generate" \in inFlight /\ i = 2 /\ attempt = 1 /\ Len(outputs) = 2

\* C6: a job that has failed gives its caller no Markdown, has nothing
\* pending and does nothing more; a terminal error of a dispatch fails the job
C6_AllOrNothing ==
    /\ [](pc = "failed" => (result = <<>> /\ inFlight = {}))
    /\ [](error # "" => pc = "failed")
    /\ [](result # <<>> => (pc = "done" /\ Len(outputs) = Len(chunks)))
    /\ [][pc = "failed" => UNCHANGED vars]_vars

\* a job of three chunks fails on the second after the first was generated
C6_Witness ==
    /\ pc = "failed" /\ error \in {"quota", "other"}
    /\ i = 1 /\ Len(chunks) >= 3 /\ Len(fullMarkdown) > 0

\* C7: the chunks the packer returns, one after the other, are its input
C7_OrderPreserved ==
    (pPc = "done" /\ ~pResult.thrown) => Flatten(pResult.chunks) = pParts

\* the packer has closed a chunk of two parts and opened another
C7_Witness ==
    /\ pPc = "done" /\ ~pResult.thrown
    /\ Len(pResult.chunks) >= 2
    /\ \E k \in 1..Len(pResult.chunks) : Len(pResult.chunks[k]) >= 2

\* the texts, trimmed, with a blank line between every two
RECURSIVE JoinBlank(_)
JoinBlank(texts) ==
    IF Len(texts) = 0 THEN <<>>
    ELSE IF Len(texts) = 1 THEN Trim(texts[1])
    ELSE Trim(texts[1]) \o <<"\n", "\n">> \o JoinBlank(Tail(texts))

\* C8: the result of a job that succeeds is the texts generated for its
\* chunks, each trimmed, in order, with "\n\n" between every two of them
C8_JoinedByBlankLines ==
    pc = "done" => result = <<JoinBlank(outputs)>>

\* C9: every block splitTextIntoParts returns is at most
\* TEXT_PART_CHAR_LIMIT characters long
C9_BlocksWithinCeiling ==
    sPc = "done" =>
        \A k \in 1..Len(sResult) : TextLength(sResult[k].text) <= TEXT_PART_CHAR_LIMIT

\* C10: the verification of a chunk of two or more parts that the counter
\* always finds over the limit comes to an end
C10_VerifierTerminates ==
    (pc = "counting" /\ counter = "over" /\ Len(work[1].parts) >= 2)
        ~> (pc \notin {"verify", "counting"})

\* the group the counter has been asked about, and whether its count is over
\* the limit
Counted == work[1].parts
CountedOver ==
    ~(countTokensForParts(counter, Counted, chunkTokenLimit) <= chunkTokenLimit)

\* C11: when the counter finds a single text part over the limit and the
\* splitter makes no more than one piece of its text, the verifier fails
\* with an error
C11_UnsplittableTextFails ==
    [][(/\ pc = "counting" /\ CountReturns
        /\ Len(Counted) = 1 /\ Counted[1].kind = "text" /\ CountedOver
        /\ Len(splitTextIntoParts(Counted[1].text)) <= 1)
       => pc' = "failed"]_vars

\* C12: when the counter finds a single inline part over the limit, the job
\* fails on that error; the chunks accepted so far are not returned, nothing
\* is sent for generation, and neither counter nor generation is called again
C12_BinaryOverFails ==
    /\ [][(/\ pc = "counting" /\ CountReturns
           /\ Len(Counted) = 1 /\ Counted[1].kind = "inline" /\ CountedOver)
          => (pc' = "failed" /\ error' = "binaryOver")]_vars
    /\ [](error = "binaryOver" =>
            /\ pc = "failed" /\ inFlight = {}
            /\ chunks = <<>> /\ result = <<>>
            /\ genCalls = 0 /\ outputs = <<>>)
    /\ [][error = "binaryOver" => UNCHANGED vars]_vars

\* a text was accepted, then the image after it was found over the limit
C12_Witness ==
    /\ pc = "failed" /\ error = "binaryOver"
    /\ Len(safeChunks) >= 1 /\ genCalls = 0

\* C13: when an image of the job (an inline part of its parts) alone exceeds
\* the byte limit, wherever it stands among the parts, the packer throws the
\* 'too large' error: the job fails on it with no chunk, and neither the
\* counter nor the generation endpoint is ever called
C13_TooLargeFailsEarly ==
    (\E k \in 1..Len(apiImages) :
        ExceedsBinaryByteLimit(estimateBytesForPart(InlinePart(apiImages[k]))))
    => /\ pc \in {"start", "failed"}
       /\ pc = "failed" => error = "tooLarge"
       /\ work = <<>> /\ safeChunks = <<>> /\ tokenCounts = <<>> /\ chunks = <<>>
       /\ genCalls = 0 /\ outputs = <<>> /\ inFlight = {} /\ result = <<>>

\* the job has failed on an oversized image that stands between three text
\* parts and an image before it, and an image after it
C13_Witness ==
    /\ pc = "failed" /\ error = "tooLarge"
    /\ apiImages = <<16000, 4000000, 16000>> /\ Len(JobParts) = 6

\* C14: the packer returns no chunk for no part, and no chunk without a part
\* for any input; the groups the verifier works on, the chunks it accepts
\* and the chunks it returns hold a part each
C14_NoEmptyChunk ==
    /\ pPc = "done" =>
          /\ pParts = <<>> => pResult.chunks = <<>>
          /\ \A k \in 1..Len(pResult.chunks) : Len(pResult.chunks[k]) >= 1
          /\ Len(pResult.chunkTokenEstimates) = Len(pResult.chunks)
    /\ \A k \in 1..Len(work) : Len(work[k].parts) >= 1
    /\ \A k \in 1..Len(safeChunks) : Len(safeChunks[k]) >= 1
    /\ \A k \in 1..Len(chunks) : Len(chunks[k]) >= 1

\* the packer has returned from a call with no part
C14_Witness ==
    /\ pPc = "done" /\ pParts = <<>> /\ ~pResult.thrown /\ pResult.chunks = <<>>

RECURSIVE SumBytes(_)
SumBytes(parts) ==
    IF Len(parts) = 0 THEN 0 ELSE estimateBytesForPart(parts[1]) + SumBytes(Tail(parts))

WithinBytes(parts) == ~ExceedsBinaryByteLimit(SumBytes(parts))

\* C15: the byte estimates of the inline parts of a chunk sum to no more than
\* the byte limit, for every chunk the packer returns, every group the
\* verifier works on, and every chunk it accepts and returns for generation
C15_ByteBudgetRespected ==
    /\ pPc = "done" => \A k \in 1..Len(pResult.chunks) : WithinBytes(pResult.chunks[k])
    /\ \A k \in 1..Len(work) : WithinBytes(work[k].parts)
    /\ \A k \in 1..Len(safeChunks) : WithinBytes(safeChunks[k])
    /\ \A k \in 1..Len(chunks) : WithinBytes(chunks[k])

\* two images of 1.5 MB each, within the token budget together, went into two
\* chunks, and the second is being sent
C15_Witness ==
    /\ pc = "sending" /\ i >= 1 /\ apiImages = <<2000000, 2000000>>
    /\ modelTokenLimit = 4000000
    /\ chunks[i + 1] = <<InlinePart(2000000)>>

\* a partition of parts 1..n into groups of neighbours is the set of the
\* places after which a group ends, the last part aside; its groups
Groups(n, cuts) ==
    {<<a, b>> \in (1..n) \X (1..n) :
        /\ a <= b
        /\ a = 1 \/ (a - 1) \in cuts
        /\ b = n \/ b \in cuts
        /\ \A c \in cuts : ~(a <= c /\ c < b)}

\* every group of two or more parts is within the token and the byte budget
Admissible(parts, cuts, limit) ==
    \A g \in Groups(Len(parts), cuts) :
        g[1] < g[2] =>
            /\ SumTokens(SubSeq(parts, g[1], g[2])) <= limit
            /\ WithinBytes(SubSeq(parts, g[1], g[2]))

\* C20: no partition of the packer's input into groups of neighbours, each
\* group of two or more parts within both budgets, has fewer groups than the
\* packer returns chunks
C20_FewestChunks ==
    (pPc = "done" /\ ~pResult.thrown) =>
        IF Len(pParts) = 0 THEN Len(pResult.chunks) = 0
        ELSE \A cuts \in SUBSET (1..(Len(pParts) - 1)) :
                Admissible(pParts, cuts, pResult.chunkTokenLimit)
                    => Cardinality(cuts) + 1 >= Len(pResult.chunks)

\* three parts went into two chunks
C20_Witness ==
    /\ pPc = "done" /\ ~pResult.thrown
    /\ Len(pParts) = 3 /\ Len(pResult.chunks) = 2

\* the wait the rejection asks for: its structured delay when it has one,
\* else the delay of the hint in its message, else the default
AskedWait(e) ==
    IF e.retryInfoMs # NoDelay THEN e.retryInfoMs
    ELSE IF e.hintMs # NoDelay THEN e.hintMs
    ELSE DEFAULT_RATE_LIMIT_DELAY_MS

\* C16: the wait that follows a quota rejection is the rejection's structured
\* delay when it has one (a delay of zero too, and whatever the message
\* hints), else the delay its message hints, else 20 seconds
C16_StructuredDelayPreferred ==
    [][\A e \in GenErrors :
          (GenThrows(e) /\ pc' = "sleeping") => sleepMs' = AskedWait(e)]_vars

\* C17: for a reported limit L >= 0 the chunk token limit is
\* max(floor(L * 0.9) - 2000, 8000), with no limit reported it is 106,000,
\* and it is never below 8,000
C17_ChunkTokenLimit ==
    pPc = "done" =>
        /\ pResult.chunkTokenLimit >= 8000
        /\ pLimit = NoLimit => pResult.chunkTokenLimit = 106000
        /\ pLimit >= 0 =>
              pResult.chunkTokenLimit = Max(((pLimit * 9) \div 10) - 2000, 8000)

\* C18: with a limit reported, the chunk budget of the job is within it, and
\* so is the count of every chunk sent for generation
C18_WithinModelLimit ==
    (modelTokenLimit # NoLimit /\ pc = "sending") =>
        /\ chunkTokenLimit <= modelTokenLimit
        /\ countTokensForParts(counter, chunks[i + 1], chunkTokenLimit)
              <= modelTokenLimit

\* the places of a text where "\r\n" stands
CountCRLF(t) == Cardinality({k \in 1..(Len(t) - 1) : t[k].c = "r" /\ t[k + 1].c = "n"})

\* C19 as claimed: the splitter returns a text that is no longer than the
\* ceiling as the single block, unchanged
C19_SmallTextUnchanged ==
    (sPc = "done" /\ TextLength(sInput) <= TEXT_PART_CHAR_LIMIT)
        => sResult = <<TextPart(sInput)>>

\* C19, amended: of a text no longer than the ceiling that is not blank the
\* splitter returns a single block, the text with every "\r\n" replaced by
\* "\n", which is the text itself when it holds no "\r\n"; of a blank text it
\* returns no block
C19_SmallTextOneBlock ==
    (sPc = "done" /\ TextLength(sInput) <= TEXT_PART_CHAR_LIMIT) =>
        IF ~(\E k \in 1..Len(sInput) : sInput[k].c = "a")
        THEN sResult = <<>>
        ELSE /\ Len(sResult) = 1
             /\ TextLength(sResult[1].text) = TextLength(sInput) - CountCRLF(sInput)
             /\ CountCRLF(sInput) = 0 => sResult = <<TextPart(sInput)>>
             /\ sResult[1].text =
                    Canon([k \in 1..Len(sInput) |->
                            IF sInput[k].c = "r" /\ k < Len(sInput) /\ sInput[k + 1].c = "n"
                            THEN Run("r", sInput[k].n - 1) ELSE sInput[k]])

\* a text of 12,000 characters with a "\r\n" in it came back as one block
C19_Witness ==
    /\ sPc = "done" /\ TextLength(sInput) = TEXT_PART_CHAR_LIMIT
    /\ CountCRLF(sInput) = 1 /\ Len(sResult) = 1

\* the number of characters of a part's text, or of its base64 data
UnitLength(part) ==
    IF part.kind = "text" THEN TextLength(part.text)
    ELSE IF part.kind = "inline" THEN part.len
    ELSE 0

\* q is the least integer that is no less than num / den
IsCeilOf(q, num, den) == q * den >= num /\ (q - 1) * den < num

\* C21: the estimator gives a text of n characters ceil(n/4) tokens and 0
\* bytes, and base64 data of n characters ceil(n/4) tokens and ceil(3n/4)
\* bytes; every part that is not empty gets at least 1 token, and a part that
\* is empty, or neither text nor data, gets 0 tokens and 0 bytes
C21_EstimatorFormulas ==
    ePc = "done" =>
        /\ IsCeilOf(eTokens, UnitLength(ePart), 4)
        /\ ePart.kind = "inline" => IsCeilOf(eBytes, 3 * UnitLength(ePart), 4)
        /\ ePart.kind # "inline" => eBytes = 0
        /\ UnitLength(ePart) > 0 => eTokens >= 1
        /\ UnitLength(ePart) = 0 => (eTokens = 0 /\ eBytes = 0)

\* base64 data of 37 characters: 10 tokens, 28 bytes
C21_Witness ==
    /\ ePc = "done" /\ ePart = InlinePart(37) /\ eTokens = 10 /\ eBytes = 28

\* the first and the last place at which "\n\n" matches within run k of t
BreakLo(t, k) == RunOffset(t, k)
BreakHi(t, k) == RunOffset(t, k) + t[k].n - 2

\* no "\n\n" begins after the cursor
NoBreakAfter(t, cur) == \A k \in NewlineRuns(t) : BreakHi(t, k) <= cur

\* C22: every iteration of the splitter's loop either takes the rest of the
\* text and leaves the loop, or moves the cursor forward and not beyond the
\* end of the text, by the ceiling when no paragraph boundary lies ahead; so
\* the loop ends after no more iterations than the text has characters
C22_SplitterTerminates ==
    /\ [][SplitIterate =>
            \/ sPc' = "filter"
            \/ sStart < sStart' /\ sStart' <= TextLength(sNormalized)]_vars
    /\ [](sPc \in {"loop", "filter", "done"} =>
            (0 <= sStart /\ sStart <= TextLength(sNormalized)))
    /\ [][(/\ SplitIterate
           /\ TextLength(sNormalized) - sStart > TEXT_PART_CHAR_LIMIT
           /\ NoBreakAfter(sNormalized, sStart))
          => sStart' = sStart + TEXT_PART_CHAR_LIMIT]_vars

\* 20,000 characters without a boundary, then 20,000 line feeds: cut at the
\* ceiling first, by a look forward next, by looks back after, and returned
C22_Witness ==
    /\ sPc = "done" /\ sInput = <<A(20000), N(20000)>> /\ Len(sChunks) >= 3

\* where the claim has the splitter cut with the cursor at cur: at the last
\* boundary after the cursor that is no further than the ceiling from it,
\* else at the first boundary beyond, else at the ceiling
ClaimedCut(t, cur) ==
    LET lim == cur + TEXT_PART_CHAR_LIMIT
        within == {k \in NewlineRuns(t) :
                      Max(BreakLo(t, k), cur + 1) <= Min(BreakHi(t, k), lim)}
        beyond == {k \in NewlineRuns(t) : BreakHi(t, k) > lim}
    IN IF within # {} THEN SetMax({Min(BreakHi(t, k), lim) : k \in within})
       ELSE IF beyond # {} THEN SetMin({Max(BreakLo(t, k), lim + 1) : k \in beyond})
       ELSE lim

\* C23: with more than the ceiling left, the splitter cuts at the last
\* paragraph boundary after the cursor and at or before cursor + ceiling,
\* else at the next boundary after that, else at the ceiling; six paragraphs
\* of about 5,000 characters come back as 3 blocks or more, each within the
\* ceiling, each but the first beginning at a boundary
C23_CutRule ==
    /\ [][(SplitIterate /\ TextLength(sNormalized) - sStart > TEXT_PART_CHAR_LIMIT)
          => /\ sStart' = ClaimedCut(sNormalized, sStart)
             /\ sChunks' = Append(sChunks, Slice(sNormalized, sStart, sStart'))]_vars
    /\ []((sPc = "done" /\ sInput = SixParagraphs) =>
            /\ Len(sResult) >= 3
            /\ \A k \in 1..Len(sResult) :
                  /\ TextLength(sResult[k].text) <= TEXT_PART_CHAR_LIMIT
                  /\ k > 1 => sResult[k].text[1] = N(2))

\* the six paragraphs came back as blocks of two paragraphs each
C23_Witness ==
    /\ sPc = "done" /\ sInput = SixParagraphs /\ Len(sResult) = 3
    /\ TextLength(sResult[1].text) = 9998

\* C24: of the chunks the packer returns, one of two or more parts is within
\* the token limit by the estimates, one over the token limit holds a single
\* part, and the first part of a chunk would have taken the chunk before it
\* over the token limit or over the byte limit
C24_PackedChunksShape ==
    (pPc = "done" /\ ~pResult.thrown) =>
        /\ \A k \in 1..Len(pResult.chunks) :
              /\ Len(pResult.chunks[k]) >= 2 =>
                    SumTokens(pResult.chunks[k]) <= pResult.chunkTokenLimit
              /\ SumTokens(pResult.chunks[k]) > pResult.chunkTokenLimit =>
                    Len(pResult.chunks[k]) = 1
        /\ \A k \in 1..(Len(pResult.chunks) - 1) :
              \/ SumTokens(pResult.chunks[k])
                    + estimateTokensForPart(pResult.chunks[k + 1][1])
                        > pResult.chunkTokenLimit
              \/ ExceedsBinaryByteLimit(
                    SumBytes(pResult.chunks[k])
                        + estimateBytesForPart(pResult.chunks[k + 1][1]))

\* a chunk of two parts that fill the limit of 8,000 tokens exactly, then a
\* part over the limit in a chunk of its own
C24_Witness ==
    /\ pPc = "done" /\ ~pResult.thrown /\ pResult.chunkTokenLimit = 8000
    /\ Len(pResult.chunks) = 2
    /\ SumTokens(pResult.chunks[1]) = 8000 /\ Len(pResult.chunks[1]) = 2
    /\ SumTokens(pResult.chunks[2]) > 8000

\* C25: a group of n >= 2 parts that the counter finds over the limit is
\* split into two groups that take the place of the group at the head of the
\* pending calls: neither is empty, each has fewer than n parts, their sizes
\* differ by one at most, and the first followed by the second is the group
C25_MidpointSplit ==
    [][(/\ pc = "counting" /\ CountReturns
        /\ Len(Counted) >= 2 /\ CountedOver)
       => /\ Len(work') = Len(work) + 1
          /\ Tail(Tail(work')) = Tail(work)
          /\ LET first == work'[1].parts
                 second == work'[2].parts
                 n == Len(Counted)
             IN /\ Len(first) >= 1 /\ Len(second) >= 1
                /\ Len(first) < n /\ Len(second) < n
                /\ Len(first) - Len(second) \in {-1, 0, 1}
                /\ first \o second = Counted]_vars

\* a group of three parts has been split into its first two parts and its
\* third
C25_Witness ==
    /\ pc = "verify" /\ Len(work) >= 2
    /\ work[1].depth = 1 /\ work[2].depth = 1 /\ work[1].root = 3
    /\ Len(work[1].parts) = 2 /\ Len(work[2].parts) = 1

\* the chunks the packer handed to the verifier
PackedChunks == chunkContentParts(JobParts, modelTokenLimit).chunks

\* does the sequence begin with the prefix?
StartsWith(seq, prefix) ==
    Len(prefix) <= Len(seq) /\ SubSeq(seq, 1, Len(prefix)) = prefix

\* are the parts out the parts orig, in order, but for text parts that gave
\* way to the pieces the splitter makes of them?
RECURSIVE Refines(_, _)
Refines(out, orig) ==
    IF Len(orig) = 0 THEN Len(out) = 0
    ELSE IF Len(out) > 0 /\ out[1] = orig[1] THEN Refines(Tail(out), Tail(orig))
    ELSE LET pieces == IF orig[1].kind = "text"
                       THEN splitTextIntoParts(orig[1].text) ELSE <<>>
         IN /\ Len(pieces) >= 2
            /\ StartsWith(out, pieces)
            /\ Refines(SubSeq(out, Len(pieces) + 1, Len(out)), Tail(orig))

\* do the chunks out fall into runs, one for each chunk of orig and in the
\* same order, the parts of a run being those of its chunk?
RECURSIVE RefinesChunks(_, _)
RefinesChunks(out, orig) ==
    IF Len(orig) = 0 THEN Len(out) = 0
    ELSE \E m \in 1..Len(out) :
            /\ Refines(Flatten(SubSeq(out, 1, m)), orig[1])
            /\ RefinesChunks(SubSeq(out, m + 1, Len(out)), Tail(orig))

\* C26: the chunks the verifier returns hold the parts of the packed chunks in
\* their order, a text part that was split again replaced where it stood by
\* its pieces, no part lost, repeated or moved, and no returned chunk holds
\* parts of two packed chunks; the dispatch leaves the chunks as they are
C26_VerifierKeepsOrder ==
    /\ []((pc = "dispatch" /\ i = 0) => RefinesChunks(chunks, PackedChunks))
    /\ [][(pc \in {"dispatch", "sending", "sleeping"}) => (chunks' = chunks)]_vars

\* the paragraph of 40,000 characters, counted double, has given way to its
\* four pieces in three chunks, before the chunk of the last character
C26_Witness ==
    /\ pc = "dispatch" /\ i = 0 /\ counter = "double"
    /\ allText = <<A(40000), N(2), A(1)>>
    /\ Len(PackedChunks) = 2 /\ Len(chunks) = 4
    /\ chunks[1] = <<TextPart(<<A(12000)>>)>>
    /\ chunks[3] = <<TextPart(<<A(12000)>>), TextPart(<<A(4000)>>)>>
    /\ chunks[4] = PackedChunks[2]

\* the elements of a sequence
Range(seq) == {seq[k] : k \in 1..Len(seq)}

\* C27: of the chunks the verifier returns, one that holds a piece of a text
\* part that was split again (a part that is none of the job's parts) holds
\* that piece and nothing else
C27_OnePiecePerChunk ==
    (pc = "dispatch" /\ i = 0) =>
        \A k \in 1..Len(chunks) :
            (\E j \in 1..Len(chunks[k]) : chunks[k][j] \notin Range(JobParts))
                => Len(chunks[k]) = 1

\* C28: every call of generateMarkdownStream begins with attempt 0 whatever
\* the chunks before it went through, and a job of N chunks issues no more
\* than 4N generation requests: no more than 4 for each chunk it has come to
C28_RetryBudgetPerChunk ==
    /\ [][(SendChunk /\ pc' = "sending") => attempt' = 0]_vars
    /\ [](genTotal <= (MAX_RATE_LIMIT_RETRIES + 1) * Len(chunks))
    /\ [](pc \in {"sending", "sleeping"} =>
            /\ i < Len(chunks)
            /\ genCalls <= MAX_RATE_LIMIT_RETRIES + 1
            /\ genTotal <= (MAX_RATE_LIMIT_RETRIES + 1) * i + genCalls)
    /\ [](pc \in {"dispatch", "done"} =>
            genTotal <= (MAX_RATE_LIMIT_RETRIES + 1) * i)

\* the first chunk took four requests, and the second chunk is at its fourth
C28_Witness ==
    /\ pc = "sending" /\ i = 1 /\ attempt = 3 /\ genCalls = 4 /\ genTotal = 8

\* C29: while chunk i of a job of N > 1 chunks is being generated, first
\* attempt or retry, the call has the chunk context {index: i, total: N} and
\* its prompt announces chunk i + 1 of N; in a job of one chunk the call has
\* no chunk context and the prompt no chunk guidance
C29_ChunkContext ==
    pc \in {"sending", "sleeping"} =>
        IF Len(chunks) > 1
        THEN /\ chunkContext = [index |-> i, total |-> Len(chunks)]
             /\ guidance = <<i + 1, Len(chunks)>>
        ELSE /\ chunkContext = NoContext
             /\ guidance = <<>>

\* the second of three chunks, after a retry: the prompt says chunk 2 of 3
C29_Witness ==
    /\ pc = "sending" /\ i = 1 /\ Len(chunks) = 3 /\ attempt = 1
    /\ guidance = <<2, 3>>

\* C30: once processFile has failed, at whichever stage, the progress state
\* has overallStatus 'error' and a step of status 'error'
C30_FailureShown ==
    stage = "failed" =>
        /\ overallStatus = "error"
        /\ \E k \in DOMAIN steps : steps[k] = "error"

\* C31: the verification is over before the dispatch begins: while a group is
\* still to be counted no generation request has been made, once one has
\* been made no count is pending or under way, and a job whose verification
\* fails makes no generation request
C31_VerifyBeforeDispatch ==
    /\ pc \in {"start", "verify", "counting"} =>
          genTotal = 0 /\ "generate" \notin inFlight
    /\ (genTotal > 0 \/ pc \in {"dispatch", "sending", "sleeping", "done"}) =>
          /\ pc \notin {"start", "verify", "counting"}
          /\ "count" \notin inFlight
          /\ work = <<>>
          /\ Len(tokenCounts) = Len(chunks)
    /\ error \in {"tooLarge", "noContent", "unsplittable", "binaryOver", "countQuota",
                 "countFailed"} =>
          genTotal = 0 /\ outputs = <<>>

\* three groups have been counted and accepted, and the first generation
\* request is under way
C31_Witness ==
    /\ pc = "sending" /\ genTotal = 1 /\ i = 0 /\ Len(tokenCounts) = 3

\* C32: the text generateMarkdownStream returns for a chunk is what the
\* attempt that succeeded has streamed, nothing else: the text of an attempt
\* is what that attempt has streamed so far, and an attempt that follows a
\* quota error begins with no text, whatever the attempt before it streamed
\* and passed to the callback
C32_OnlySuccessfulAttempt ==
    /\ [](pc = "sending" => fullText = attemptText)
    /\ [][WakeUp => (fullText' = <<>> /\ attemptText' = <<>>)]_vars
    /\ [][GenReturns => (outputs' = Append(outputs, attemptText))]_vars

\* an attempt has streamed " a\n" and then failed with a quota error: the
\* text is still there while the retry is waited for
C32_Witness ==
    /\ pc = "sleeping" /\ attempt = 1
    /\ attemptText = <<" ", "a", "\n">> /\ fullText = <<" ", "a", "\n">>

\* C33: a quota rejection of a count call fails the job at once: the call is
\* not made again, nothing is announced or waited for, during the
\* verification or after, and no generation request is made
C33_CountQuotaNotRetried ==
    /\ [][(\E e \in GenErrors : parseQuotaError(e).isQuota /\ CountThrows(e))
            => (pc' = "failed" /\ error' = "countQuota" /\ inFlight' = {})]_vars
    /\ [](pc \in {"verify", "counting"} =>
            notices = 0 /\ delaySum = 0 /\ sleptMs = 0 /\ sleepMs = 0)
    /\ [](error = "countQuota" =>
            /\ pc = "failed" /\ result = <<>>
            /\ notices = 0 /\ delaySum = 0 /\ sleptMs = 0 /\ sleepMs = 0
            /\ genTotal = 0 /\ outputs = <<>>)

\* the first group was counted and accepted, the count of the second was
\* rejected for quota
C33_Witness ==
    /\ pc = "failed" /\ error = "countQuota" /\ Len(tokenCounts) = 1 /\ Len(work) >= 1

\* C34: while a chunk is being generated, the count the verifier accepted for
\* it was asked for the parts that are sent and for the system instruction
\* that is sent, chunk guidance included
C34_CountedAsSent ==
    pc \in {"sending", "sleeping"} =>
        /\ chunks[i + 1] = safeChunks[i + 1]
        /\ tokenCounts[i + 1] =
              countTokensForParts(counter, chunks[i + 1], chunkTokenLimit)
        /\ chunkGuidance(countContexts[i + 1]) = guidance

\* C36: the verifier's counts go with its chunks: as many counts as chunks,
\* the k-th count is what the counter answered for the k-th chunk, and when
\* the verifier has returned, totalTokens is the sum of the counter's answers
\* for the chunks it returns
C36_CountsAligned ==
    /\ Len(tokenCounts) = Len(safeChunks)
    /\ Len(countContexts) = Len(safeChunks)
    /\ pc \in {"verify", "counting"} =>
          \A k \in 1..Len(safeChunks) :
              tokenCounts[k] = countTokensForParts(counter, safeChunks[k], chunkTokenLimit)
    /\ pc \in {"dispatch", "sending", "sleeping", "done"} =>
          /\ chunks = safeChunks
          /\ Len(tokenCounts) = Len(chunks)
    /\ (pc = "dispatch" /\ i = 0) =>
          LET answer(k) == countTokensForParts(counter, chunks[k], chunkTokenLimit)
              RECURSIVE SumTo(_)
              SumTo(k) == IF k = 0 THEN 0 ELSE SumTo(k - 1) + answer(k)
          IN /\ \A k \in 1..Len(chunks) : tokenCounts[k] = answer(k)
             /\ totalTokens = SumTo(Len(chunks))

\* two chunks of 5,501 and 2,751 tokens, 8,252 in all
C36_Witness ==
    /\ pc = "dispatch" /\ i = 0
    /\ tokenCounts = <<5501, 2751>> /\ totalTokens = 8252
    /\ Len(chunks[1]) = 2 /\ Len(chunks[2]) = 1

\* C37: a text that is empty or all whitespace, with no image, gives no chunk:
\* the job fails with the 'no content' error, and no count request and no
\* generation request is ever made for it
Blank(t) == \A k \in 1..Len(t) : t[k].c \in {"s", "n", "r"}

C37_BlankFailsFirst ==
    (Blank(allText) /\ apiImages = <<>>) =>
        /\ pc \in {"start", "failed"}
        /\ pc = "failed" => (error = "noContent" /\ result = <<>>)
        /\ work = <<>> /\ safeChunks = <<>> /\ tokenCounts = <<>> /\ chunks = <<>>
        /\ inFlight = {} /\ genTotal = 0 /\ genCalls = 0 /\ outputs = <<>>

\* three spaces and the blank line that ends a PDF page, no image
C37_Witness ==
    /\ pc = "failed" /\ error = "noContent"
    /\ fileType = "pdf" /\ allText = <<S(3), N(2)>> /\ apiImages = <<>>
    /\ tokenCounts = <<>> /\ genTotal = 0

\* C35: the splitter loses no content: the blocks it has cut, joined in order,
\* are the normalized input up to the cursor, and all of it when the loop is
\* left; the blocks it returns are the blocks it cut without the blank ones,
\* and hold as many non-whitespace characters as the input
RECURSIVE ConcatTexts(_)
ConcatTexts(texts) ==
    IF Len(texts) = 0 THEN <<>> ELSE texts[1] \o ConcatTexts(Tail(texts))

RECURSIVE InkCount(_)
InkCount(t) ==
    IF Len(t) = 0 THEN 0
    ELSE (IF t[1].c = "a" THEN t[1].n ELSE 0) + InkCount(Tail(t))

C35_NoContentLost ==
    LET joined == Canon(ConcatTexts(sChunks))
        returned == [k \in 1..Len(sResult) |-> sResult[k].text]
        inked == [k \in 1..Len(sChunks) |->
                    IF InkCount(sChunks[k]) > 0 THEN sChunks[k] ELSE <<>>]
    IN /\ sPc = "loop" =>
            /\ TextLength(joined) = sStart
            /\ Canon(joined \o Slice(sNormalized, sStart, TextLength(sNormalized)))
                  = sNormalized
       /\ (sPc = "filter" \/ (sPc = "done" /\ InkCount(sInput) > 0)) =>
            joined = ReplaceCRLF(sInput)
       /\ sPc = "done" =>
            /\ \A k \in 1..Len(returned) : InkCount(returned[k]) > 0
            /\ Canon(ConcatTexts(returned)) = Canon(ConcatTexts(inked))
            /\ InkCount(ConcatTexts(returned)) = InkCount(sInput)

\* 20,000 letters, a CR LF and 19,999 line feeds: one block of letters comes
\* back, the two blocks of line feeds cut after it do not
C35_Witness ==
    /\ sPc = "done" /\ sInput = <<A(20000), R(1), N(20000)>>
    /\ sChunks = <<<<A(20000)>>, <<N(12000)>>, <<N(8000)>>>>
    /\ Len(sResult) = 1

====
